---- MODULE Spec2Model ----
(***************************************************************************)
(* Model of the serial Device Session of sercalo_filter:                   *)
(* interface/communication.py, class SerialCommunicator, driven by the     *)
(* two threads of control the program has: the worker thread that runs     *)
(* connect() and the read loop run(), and the caller (GUI) thread that     *)
(* calls send_command() and disconnect().  Spec is one session, with a     *)
(* caller free to call at any moment; AppSpec is the application:          *)
(* MainWindow (interface/main_window.py), its port enumeration             *)
(* serial_ports() and the sessions it creates and drops.                   *)
(*                                                                         *)
(* Text is modelled as sequences of Unicode code points, the wire as       *)
(* sequences of bytes; encode/decode are the UTF-8 conversions restricted  *)
(* to the one- and two-byte forms (code points up to U+07FF).              *)
(***************************************************************************)
EXTENDS Integers, Sequences, FiniteSets, TLC

\* ------------------------------------------------------------------ bounds
\* number of lines the device delivers in one session
MaxReads == 2
\* number of send_command invocations in one session
MaxSends == 2

\* ------------------------------------------------------------ text helpers
Last(s) == s[Len(s)]

\* str.startswith(prefix)
StartsWith(s, p) == Len(s) >= Len(p) /\ SubSeq(s, 1, Len(p)) = p

\* the characters str.strip() removes: \t \n \v \f \r, FS GS RS US, space,
\* NEL and NBSP (the whitespace code points below U+0800)
IsSpace(c) == c \in {9, 10, 11, 12, 13, 28, 29, 30, 31, 32, 133, 160}

RECURSIVE LStrip(_)
LStrip(s) == IF s # <<>> /\ IsSpace(s[1]) THEN LStrip(Tail(s)) ELSE s

RECURSIVE RStrip(_)
RStrip(s) ==
    IF s # <<>> /\ IsSpace(s[Len(s)]) THEN RStrip(SubSeq(s, 1, Len(s) - 1)) ELSE s

\* str.strip()
Strip(s) == RStrip(LStrip(s))

\* str.encode('utf-8'), code points below U+0800
RECURSIVE Utf8Encode(_)
Utf8Encode(s) ==
    IF s = <<>> THEN <<>>
    ELSE LET c == s[1]
         IN  (IF c < 128 THEN <<c>>
              ELSE <<192 + (c \div 64), 128 + (c % 64)>>) \o Utf8Encode(Tail(s))

\* bytes.decode('utf-8'): [ok |-> TRUE, str |-> text] or, where Python raises
\* UnicodeDecodeError, [ok |-> FALSE, str |-> <<>>]
RECURSIVE Utf8Decode(_)
Utf8Decode(b) ==
    IF b = <<>> THEN [ok |-> TRUE, str |-> <<>>]
    ELSE IF b[1] < 128
         THEN LET r == Utf8Decode(Tail(b))
              IN  [ok |-> r.ok, str |-> IF r.ok THEN <<b[1]>> \o r.str ELSE <<>>]
    ELSE IF /\ b[1] >= 194 /\ b[1] <= 223
            /\ Len(b) >= 2 /\ b[2] >= 128 /\ b[2] <= 191
         THEN LET r == Utf8Decode(Tail(Tail(b)))
              IN  [ok |-> r.ok,
                   str |-> IF r.ok THEN <<(b[1] - 192) * 64 + (b[2] - 128)>> \o r.str
                           ELSE <<>>]
    ELSE [ok |-> FALSE, str |-> <<>>]

\* the literals ':ACK' and ':NACK'
ACK == <<58, 65, 67, 75>>
NACK == <<58, 78, 65, 67, 75>>

\* ------------------------------------------------------------------ inputs
\* the port the session was constructed with (self._port_name)
PortName == "COM3"

\* the candidate ports of the platform, in the order serial_ports() probes them
Candidates == <<"COM3", "COM4">>

\* what readline() can return on data: the bytes of one line, terminator
\* included
InboundLines ==
    { <<58, 65, 67, 75, 58, 195, 169, 32, 13, 10>>,  \* ":ACK:é \r\n"
      <<58, 78, 65, 67, 75, 58, 49, 10>>,      \* ":NACK:1\n"
      <<32, 58, 65, 67, 75, 10>>,              \* " :ACK\n"
      <<58, 65, 67, 10>>,                      \* ":AC\n"
      <<255, 10>> }                            \* not UTF-8

\* the command strings the caller passes to send_command
Commands ==
    { <<105, 100, 101, 110, 63>>,              \* "iden?"
      <<233>> }                                \* "é"

\* ------------------------------------------------------------------- state
VARIABLES
    serial_port,        \* self.serial_port: "None", or a Serial that is "open" or "closed"
    is_running,         \* self._is_running
    pc,                 \* the worker thread's position in connect()/run()
    cpc,                \* the caller thread's position ("idle", or inside disconnect())
    response_received,  \* the emissions of the response_received signal, in order
    error_received,     \* the emissions of the error_received signal, in order
    port_closed,        \* the number of emissions of the port_closed signal
    wire,               \* the bytes written to the serial port, in order
    inbound,            \* the lines readline() has returned, in order
    loop_events,        \* history: the response and failure lines run() emitted, in order
    sent,               \* history: the commands whose write() succeeded, in order
    term,               \* history: how the worker's connect() ended
    closed_in_read,     \* history: disconnect() closed the port under a pending readline()
    port_name,          \* self._port_name
    communicator,       \* MainWindow.communicator: "None" or "set"
    comm_thread,        \* MainWindow.comm_thread: "None" or "running"
    refresh_enabled,    \* refresh_button and port_selector are enabled
    delivered,          \* the port_closed emissions delivered to on_disconnected
    window,             \* the main window: "shown" or "closed"
    live_threads,       \* history: the worker threads started and not yet joined
    port_selector,      \* the items of the port_selector combo box
    enum_i,             \* serial_ports(): index of the candidate in the loop, 0 outside it
    result,             \* serial_ports(): the local list result
    probe,              \* serial_ports(): the candidates whose probe handle is open
    probed              \* history: the outcome of each probe of this enumeration

\* the state of the SerialCommunicator and of its two callers' positions
session == <<serial_port, is_running, pc, cpc, response_received, error_received,
             port_closed, wire, inbound, loop_events, sent, term, closed_in_read>>

\* what no method of SerialCommunicator assigns: its constructor argument and
\* the state of MainWindow
outer == <<port_name, communicator, comm_thread, refresh_enabled, delivered, window,
           live_threads, port_selector, enum_i, result, probe, probed>>

vars == <<session, outer>>

\* toggle_connection has created the session on the selected port:
\* SerialCommunicator.__init__, then QThread.start() queues connect() on the worker
Init ==
    /\ serial_port = "None"
    /\ is_running = FALSE
    /\ pc = "connect"
    /\ cpc = "idle"
    /\ response_received = <<>>
    /\ error_received = <<>>
    /\ port_closed = 0
    /\ wire = <<>>
    /\ inbound = <<>>
    /\ loop_events = <<>>
    /\ sent = <<>>
    /\ term = "none"
    /\ closed_in_read = FALSE
    /\ port_name = PortName
    /\ communicator = "set"
    /\ comm_thread = "running"
    /\ refresh_enabled = FALSE
    /\ delivered = 0
    /\ window = "shown"
    /\ live_threads = 1
    /\ port_selector = <<PortName>>
    /\ enum_i = 0
    /\ result = <<>>
    /\ probe = {}
    /\ probed = <<>>

\* an emission of error_received: the message prefix and what is formatted into it
ErrMsg(prefix, port, exc, line) ==
    [prefix |-> prefix, port |-> port, exc |-> exc, line |-> line]

\* the number of error_received emissions with the given message prefix
CountErr(prefix) ==
    Cardinality({i \in 1..Len(error_received) : error_received[i].prefix = prefix})

\* ----------------------------------------------------------- worker thread
\* connect(), lines 56-61: serial.Serial(port, baudrate, timeout=1) opens the
\* port or raises.  A SerialException is reported and connect() returns.  The
\* constructor can also raise an OSError that is not a SerialException (the
\* probe of the same constructor at line 32 catches both): the except clause
\* at line 60 does not match it and it leaves connect().
ConnectOpen ==
    /\ pc = "connect"
    /\ \E outcome \in {"opened", "SerialException", "OSError"} :
          CASE outcome = "opened" ->
                  /\ serial_port' = "open"
                  /\ pc' = "set_running"
                  /\ UNCHANGED <<error_received, term>>
            [] outcome = "SerialException" ->
                  /\ error_received' =
                         Append(error_received,
                                ErrMsg("Falha ao abrir porta", port_name, outcome, <<>>))
                  /\ pc' = "done"
                  /\ term' = "open_failed"
                  /\ UNCHANGED serial_port
            [] outcome = "OSError" ->
                  /\ pc' = "raised"
                  /\ term' = "escaped"
                  /\ UNCHANGED <<serial_port, error_received>>
    /\ UNCHANGED <<is_running, cpc, response_received, port_closed, wire, inbound, loop_events,
                   sent, closed_in_read>>
    /\ UNCHANGED outer

\* connect(), lines 58-59: set the running flag and enter run()
ConnectSetRunning ==
    /\ pc = "set_running"
    /\ is_running' = TRUE
    /\ pc' = "while"
    /\ UNCHANGED <<serial_port, cpc, response_received, error_received, port_closed,
                   wire, inbound, loop_events, sent, term, closed_in_read>>
    /\ UNCHANGED outer

\* run(), line 77: the loop condition
LoopCondition == is_running /\ serial_port = "open"

LoopCheck ==
    /\ pc = "while"
    /\ IF LoopCondition
       THEN pc' = "readline" /\ UNCHANGED term
       ELSE pc' = "emit" /\ term' = "stopped"
    /\ UNCHANGED <<serial_port, is_running, cpc, response_received, error_received,
                   port_closed, wire, inbound, loop_events, sent, closed_in_read>>
    /\ UNCHANGED outer

\* Classify without the elif branch for ':NACK'
Classify_NoNack(line) ==
    IF line = <<>> THEN "none"
    ELSE IF StartsWith(line, ACK) THEN "ack"
    ELSE "none"

\* Classify with the first prefix mistyped as ':AC'
Classify_ShortPrefix(line) ==
    IF line = <<>> THEN "none"
    ELSE IF StartsWith(line, <<58, 65, 67>>) THEN "ack"
    ELSE IF StartsWith(line, NACK) THEN "nack"
    ELSE "none"

\* run(), lines 80-85: what the loop does with a decoded, stripped line
Classify(line) ==
    IF line = <<>> THEN "none"
    ELSE IF StartsWith(line, ACK) THEN "ack"
    ELSE IF StartsWith(line, NACK) THEN "nack"
    ELSE "none"

\* what the call of readline() at line 79 can do: return bytes (b'' on a
\* timeout) or raise.  On an open port it returns a line or a timeout, or
\* raises SerialException.  On a port that disconnect() closed under it the
\* outcome is a race inside the serial library: TypeError, SerialException,
\* or a return of b''.
ReadResults ==
    IF serial_port = "open"
    THEN {[exc |-> "", raw |-> <<>>], [exc |-> "SerialException", raw |-> <<>>]}
         \cup {[exc |-> "", raw |-> l] :
                   l \in IF Len(inbound) < MaxReads THEN InboundLines ELSE {}}
    ELSE {[exc |-> "", raw |-> <<>>], [exc |-> "TypeError", raw |-> <<>>],
          [exc |-> "SerialException", raw |-> <<>>]}

Emit_Front(log, ev) == <<ev>> \o log

\* signal.emit(ev), lines 83 and 85: the receivers see the emissions of one
\* signal in the order they were made
Emit(log, ev) == Append(log, ev)

\* run(), lines 78-91: one pass of the loop body, given what readline() did
RunIteration(r) ==
    LET d == Utf8Decode(r.raw)
        exc == IF r.exc # "" THEN r.exc
               ELSE IF ~d.ok THEN "UnicodeDecodeError" ELSE ""
        line == Strip(d.str)
        cause == IF serial_port = "open" THEN "read_fault" ELSE "shutdown_fault"
        event == IF exc # "" THEN "none" ELSE Classify(line)
    IN  /\ inbound' = IF r.exc = "" /\ r.raw # <<>> THEN Append(inbound, r.raw) ELSE inbound
        /\ loop_events' = IF event = "none" THEN loop_events
                          ELSE Emit(loop_events, [sig |-> event, line |-> line])
        /\ IF exc = "TypeError"
           THEN /\ pc' = "emit"
                /\ term' = cause
                /\ UNCHANGED <<response_received, error_received>>
           ELSE IF exc # ""
           THEN /\ error_received' =
                       Append(error_received, ErrMsg("Erro de leitura", "", exc, <<>>))
                /\ pc' = "emit"
                /\ term' = cause
                /\ UNCHANGED response_received
           ELSE /\ pc' = "while"
                /\ UNCHANGED term
                /\ response_received' =
                       IF Classify(line) = "ack" THEN Emit(response_received, line)
                       ELSE response_received
                /\ error_received' =
                       IF Classify(line) = "nack"
                       THEN Emit(error_received, ErrMsg("", "", "", line))
                       ELSE error_received

ReadLine ==
    /\ pc = "readline"
    /\ \E r \in ReadResults : RunIteration(r)
    /\ UNCHANGED <<serial_port, is_running, cpc, port_closed, wire, sent, closed_in_read>>
    /\ UNCHANGED outer

\* run(), line 92: after the loop
EmitClosed ==
    /\ pc = "emit"
    /\ port_closed' = port_closed + 1
    /\ pc' = "done"
    /\ UNCHANGED <<serial_port, is_running, cpc, response_received, error_received,
                   wire, inbound, loop_events, sent, term, closed_in_read>>
    /\ UNCHANGED outer

Worker == ConnectOpen \/ ConnectSetRunning \/ LoopCheck \/ ReadLine \/ EmitClosed

\* ----------------------------------------------------------- caller thread
\* FormatCommand without the terminating newline
FormatCommand_NoNewline(command) == <<58>> \o command

\* send_command(), line 69: the frame
FormatCommand(command) == <<58>> \o command \o <<10>>

\* SendCommand with a failed write treated as fatal: it stops the session
SendCommand_StopOnFailure(command) ==
    /\ cpc = "idle"
    /\ IF serial_port = "open"
       THEN /\ Len(sent) + CountErr("Erro ao enviar comando") < MaxSends
            /\ \E written \in BOOLEAN :
                  IF written
                  THEN /\ wire' = wire \o Utf8Encode(FormatCommand(command))
                       /\ sent' = Append(sent, command)
                       /\ UNCHANGED <<error_received, is_running, serial_port>>
                  ELSE /\ error_received' =
                              Append(error_received,
                                     ErrMsg("Erro ao enviar comando", "",
                                            "SerialException", <<>>))
                       /\ is_running' = FALSE
                       /\ serial_port' = "closed"
                       /\ UNCHANGED <<wire, sent>>
       ELSE UNCHANGED <<wire, error_received, sent, is_running, serial_port>>
    /\ UNCHANGED <<pc, cpc, response_received, port_closed, inbound, loop_events, term,
                   closed_in_read>>
    /\ UNCHANGED outer

\* send_command(), lines 64-73; write() succeeds or raises SerialException
SendCommand(command) ==
    /\ cpc = "idle"
    /\ IF serial_port = "open"
       THEN /\ Len(sent) + CountErr("Erro ao enviar comando") < MaxSends
            /\ \E written \in BOOLEAN :
                  IF written
                  THEN /\ wire' = wire \o Utf8Encode(FormatCommand(command))
                       /\ sent' = Append(sent, command)
                       /\ UNCHANGED error_received
                  ELSE /\ error_received' =
                              Append(error_received,
                                     ErrMsg("Erro ao enviar comando", "",
                                            "SerialException", <<>>))
                       /\ UNCHANGED <<wire, sent>>
       ELSE UNCHANGED <<wire, error_received, sent>>
    /\ UNCHANGED <<serial_port, is_running, pc, cpc, response_received, port_closed,
                   inbound, loop_events, term, closed_in_read>>
    /\ UNCHANGED outer

\* disconnect(), line 97, as the session sees it
DisconnectEnter ==
    /\ cpc = "idle"
    /\ is_running' = FALSE
    /\ cpc' = "disc_close"
    /\ UNCHANGED <<serial_port, pc, response_received, error_received, port_closed,
                   wire, inbound, loop_events, sent, term, closed_in_read>>

\* disconnect(), line 97
DisconnectBegin ==
    /\ DisconnectEnter
    /\ UNCHANGED outer

\* DisconnectClose without the call of close()
DisconnectClose_NoClose ==
    /\ cpc = "disc_close"
    /\ cpc' = "idle"
    /\ UNCHANGED <<serial_port, closed_in_read, is_running, pc, response_received,
                   error_received, port_closed, wire, inbound, loop_events, sent, term>>
    /\ UNCHANGED outer

\* DisconnectClose that also emits port_closed
DisconnectClose_Emits ==
    /\ cpc = "disc_close"
    /\ IF serial_port = "open"
       THEN /\ serial_port' = "closed"
            /\ closed_in_read' = (closed_in_read \/ pc = "readline")
       ELSE UNCHANGED <<serial_port, closed_in_read>>
    /\ port_closed' = port_closed + 1
    /\ cpc' = "idle"
    /\ UNCHANGED <<is_running, pc, response_received, error_received,
                   wire, inbound, loop_events, sent, term>>
    /\ UNCHANGED outer

\* disconnect(), lines 98-99
DisconnectClose ==
    /\ cpc = "disc_close"
    /\ IF serial_port = "open"
       THEN /\ serial_port' = "closed"
            /\ closed_in_read' = (closed_in_read \/ pc = "readline")
       ELSE UNCHANGED <<serial_port, closed_in_read>>
    /\ cpc' = "idle"
    /\ UNCHANGED <<is_running, pc, response_received, error_received, port_closed,
                   wire, inbound, loop_events, sent, term>>
    /\ UNCHANGED outer

Caller == (\E c \in Commands : SendCommand(c)) \/ DisconnectBegin \/ DisconnectClose

Next == Worker \/ Caller

Spec == Init /\ [][Next]_vars

\* the worker thread keeps being scheduled, and a disconnect() that was
\* entered runs to its end
FairSpec == Spec /\ WF_vars(Worker) /\ WF_vars(DisconnectClose)


\* ---------------------------------------------------------------- MainWindow
\* the GUI thread is in its event loop: the window is shown and no handler,
\* enumeration or direct call of the communicator is under way
GuiFree == window = "shown" /\ enum_i = 0 /\ cpc = "idle"

\* MainWindow.__init__ has run up to its call of populate_ports() at line 75,
\* which has cleared the selector and entered serial_ports(); no session yet
AppInit ==
    /\ serial_port = "None"
    /\ is_running = FALSE
    /\ pc = "idle"
    /\ cpc = "idle"
    /\ response_received = <<>>
    /\ error_received = <<>>
    /\ port_closed = 0
    /\ wire = <<>>
    /\ inbound = <<>>
    /\ loop_events = <<>>
    /\ sent = <<>>
    /\ term = "none"
    /\ closed_in_read = FALSE
    /\ port_name = "None"
    /\ communicator = "None"
    /\ comm_thread = "None"
    /\ refresh_enabled = TRUE
    /\ delivered = 0
    /\ window = "shown"
    /\ live_threads = 0
    /\ port_selector = <<>>
    /\ enum_i = 1
    /\ result = <<>>
    /\ probe = {}
    /\ probed = <<>>

\* populate_ports, lines 79-80, on a click of refresh_button: clear the
\* selector and enter serial_ports() (line 26: result = [])
PopulateStart ==
    /\ GuiFree
    /\ refresh_enabled
    /\ port_selector' = <<>>
    /\ enum_i' = 1
    /\ result' = <<>>
    /\ probed' = <<>>
    /\ UNCHANGED <<session, port_name, communicator, comm_thread, refresh_enabled,
                   delivered, window, live_threads, probe>>

\* serial_ports(), lines 29 and 32-33: serial.Serial(port) opens the candidate,
\* or raises OSError or SerialException and the candidate is passed over
ProbeOpen ==
    /\ enum_i \in 1..Len(Candidates)
    /\ Candidates[enum_i] \notin probe
    /\ \E outcome \in {"ok", "OSError", "SerialException"} :
          /\ probed' = Append(probed, outcome)
          /\ IF outcome = "ok"
             THEN /\ probe' = probe \cup {Candidates[enum_i]}
                  /\ UNCHANGED enum_i
             ELSE /\ enum_i' = enum_i + 1
                  /\ UNCHANGED probe
    /\ UNCHANGED <<session, port_name, communicator, comm_thread, refresh_enabled,
                   delivered, window, live_threads, port_selector, result>>

\* ProbeClose without the call of close()
ProbeClose_NoClose ==
    /\ enum_i \in 1..Len(Candidates)
    /\ Candidates[enum_i] \in probe
    /\ result' = Append(result, Candidates[enum_i])
    /\ enum_i' = enum_i + 1
    /\ UNCHANGED <<session, port_name, communicator, comm_thread, refresh_enabled,
                   delivered, window, live_threads, port_selector, probed, probe>>

\* serial_ports(), lines 30-31: s.close(); result.append(port)
ProbeClose ==
    /\ enum_i \in 1..Len(Candidates)
    /\ Candidates[enum_i] \in probe
    /\ probe' = probe \ {Candidates[enum_i]}
    /\ result' = Append(result, Candidates[enum_i])
    /\ enum_i' = enum_i + 1
    /\ UNCHANGED <<session, port_name, communicator, comm_thread, refresh_enabled,
                   delivered, window, live_threads, port_selector, probed>>

\* serial_ports(), line 34, and populate_ports, lines 81-82: the result is
\* returned and its ports are added to the selector
PopulateFinish ==
    /\ enum_i = Len(Candidates) + 1
    /\ port_selector' = result
    /\ enum_i' = 0
    /\ result' = <<>>
    /\ probed' = <<>>
    /\ UNCHANGED <<session, port_name, communicator, comm_thread, refresh_enabled,
                   delivered, window, live_threads, probe>>

CanCreate_Always == TRUE

\* toggle_connection, line 86: if self.communicator is None
CanCreate == communicator = "None"

\* toggle_connection, lines 92-105: a new QThread and a new SerialCommunicator
\* on the selected port; the thread is started, which queues connect() on it
StartSession(name) ==
    /\ serial_port' = "None"
    /\ is_running' = FALSE
    /\ pc' = "connect"
    /\ cpc' = "idle"
    /\ response_received' = <<>>
    /\ error_received' = <<>>
    /\ port_closed' = 0
    /\ wire' = <<>>
    /\ inbound' = <<>>
    /\ loop_events' = <<>>
    /\ sent' = <<>>
    /\ term' = "none"
    /\ closed_in_read' = FALSE
    /\ port_name' = name
    /\ communicator' = "set"
    /\ comm_thread' = "running"
    /\ refresh_enabled' = FALSE
    /\ delivered' = 0
    /\ live_threads' = live_threads + 1
    /\ UNCHANGED <<window, port_selector, enum_i, result, probe, probed>>

\* toggle_connection, lines 84-108, on a click of connect_button: with no
\* communicator, warn and return when no port is selected, else start a
\* session on the selected port; with a communicator, call its disconnect()
ToggleConnection ==
    /\ GuiFree
    /\ IF CanCreate
       THEN IF port_selector = <<>>
            THEN UNCHANGED vars
            ELSE \E i \in 1..Len(port_selector) : StartSession(port_selector[i])
       ELSE DisconnectBegin

\* on_disconnected, lines 110-120, run by the GUI thread for a queued
\* port_closed: quit() and wait() return when the worker thread has finished.
\* The SerialCommunicator is dropped and its state with it; whether a port it
\* left open is released at that moment is up to the garbage collector.
OnDisconnected ==
    /\ GuiFree
    /\ delivered < port_closed
    /\ pc = "done"
    /\ live_threads' = IF comm_thread = "running" THEN live_threads - 1 ELSE live_threads
    /\ comm_thread' = "None"
    /\ communicator' = "None"
    /\ refresh_enabled' = TRUE
    /\ serial_port' \in IF serial_port = "open" THEN {"open", "None"} ELSE {"None"}
    /\ is_running' = FALSE
    /\ pc' = "idle"
    /\ response_received' = <<>>
    /\ error_received' = <<>>
    /\ port_closed' = 0
    /\ wire' = <<>>
    /\ inbound' = <<>>
    /\ loop_events' = <<>>
    /\ sent' = <<>>
    /\ term' = "none"
    /\ closed_in_read' = FALSE
    /\ port_name' = "None"
    /\ delivered' = 0
    /\ UNCHANGED <<cpc, window, port_selector, enum_i, result, probe, probed>>

\* send_command_from_widget, lines 122-128: with a communicator, call its
\* send_command(); without one, warn
SendCommandFromWidget(command) ==
    /\ GuiFree
    /\ IF communicator = "set" THEN SendCommand(command) ELSE UNCHANGED vars

\* closeEvent, lines 143-147: with a communicator, call its disconnect(); the
\* window closes
CloseEvent ==
    /\ GuiFree
    /\ window' = "closed"
    /\ IF communicator = "set" THEN DisconnectEnter ELSE UNCHANGED session
    /\ UNCHANGED <<port_name, communicator, comm_thread, refresh_enabled, delivered,
                   live_threads, port_selector, enum_i, result, probe, probed>>

Gui ==
    \/ PopulateStart \/ ProbeOpen \/ ProbeClose \/ PopulateFinish
    \/ ToggleConnection \/ OnDisconnected \/ CloseEvent
    \/ \E c \in Commands : SendCommandFromWidget(c)

AppNext == Worker \/ DisconnectClose \/ Gui

\* the application: MainWindow, and the sessions it creates
AppSpec == AppInit /\ [][AppNext]_vars

\* ------------------------------------------------------- claim vocabulary
\* spec 4.2: the session is Open from the successful port open until the read
\* loop has terminated
SessionOpen == serial_port = "open" /\ term = "none"

\* serial.Serial() raised in connect()
OpenFailed == term \in {"open_failed", "escaped"}

\* a line of text without its line terminator ("\n" or "\r\n")
Chomp(s) ==
    IF Len(s) >= 2 /\ s[Len(s) - 1] = 13 /\ s[Len(s)] = 10 THEN SubSeq(s, 1, Len(s) - 2)
    ELSE IF Len(s) >= 1 /\ s[Len(s)] = 10 THEN SubSeq(s, 1, Len(s) - 1)
    ELSE s

\* a step in which readline() returned a line
GotLine == inbound' # inbound
\* a step in which readline() returned, with a line or empty-handed on a timeout
ReadReturned == pc = "readline" /\ pc' # "readline" /\ (GotLine \/ term' = term)
\* a step in which send_command called write(), and one in which that failed
SendFailed ==
    /\ Len(error_received') = Len(error_received) + 1
    /\ Last(error_received').prefix = "Erro ao enviar comando"
SendStep == sent' # sent \/ SendFailed

\* the wire bytes of a sequence of commands: for each, in order, the byte
\* ':', the UTF-8 bytes of the command, the byte '\n'
RECURSIVE ExpectedWire(_)
ExpectedWire(cs) ==
    IF cs = <<>> THEN <<>>
    ELSE <<58>> \o Utf8Encode(cs[1]) \o <<10>> \o ExpectedWire(Tail(cs))

\* the events the lines ls call for, in the order of the lines, when a line's
\* text is what is left of its decoded bytes after Chomp (exact = TRUE) or
\* after Strip (exact = FALSE); a line that does not decode calls for none
RECURSIVE LineEvents(_, _)
LineEvents(ls, exact) ==
    IF ls = <<>> THEN <<>>
    ELSE LET d == Utf8Decode(ls[1])
             text == IF exact THEN Chomp(d.str) ELSE Strip(d.str)
             here == IF ~d.ok THEN <<>>
                     ELSE IF StartsWith(text, ACK) THEN <<[sig |-> "ack", line |-> text]>>
                     ELSE IF StartsWith(text, NACK) THEN <<[sig |-> "nack", line |-> text]>>
                     ELSE <<>>
         IN  here \o LineEvents(Tail(ls), exact)

\* the kinds of a sequence of events
Kinds(evs) == [i \in 1..Len(evs) |-> evs[i].sig]

\* the lines of the events of one kind, in order
RECURSIVE LinesOf(_, _)
LinesOf(evs, sig) ==
    IF evs = <<>> THEN <<>>
    ELSE (IF evs[1].sig = sig THEN <<evs[1].line>> ELSE <<>>) \o LinesOf(Tail(evs), sig)

\* the lines carried by the error_received events that report a ':NACK' line
RECURSIVE NackLines(_)
NackLines(errs) ==
    IF errs = <<>> THEN <<>>
    ELSE (IF errs[1].prefix = "" THEN <<errs[1].line>> ELSE <<>>) \o NackLines(Tail(errs))

\* the worker thread is inside connect()
WorkerInConnect == pc \in {"connect", "set_running", "while", "readline", "emit"}

\* the candidates cands whose probe, by the outcomes outs, opened, in order
RECURSIVE Openable(_, _)
Openable(cands, outs) ==
    IF cands = <<>> \/ outs = <<>> THEN <<>>
    ELSE (IF outs[1] = "ok" THEN <<cands[1]>> ELSE <<>>)
             \o Openable(Tail(cands), Tail(outs))

\* ------------------------------------------------------------------ claims
\* C1: once the worker's connect() has returned, port_closed was emitted
\* exactly once, however the session ended.
C1_ExactlyOnePortClosed == pc = "done" => port_closed = 1

\* C2: when disconnect() closes the port while the worker is in readline(),
\* the loop ends without any read-failure ("Erro de leitura") event.
C2_SilentShutdown == closed_in_read => CountErr("Erro de leitura") = 0

\* C3: after a read failure that is not the closed-port shutdown, exactly one
\* read-failure event was emitted, the loop has terminated, the port is no
\* longer open and the running flag is false.
C3_ReadFaultClosesSession ==
    (term = "read_fault" /\ pc = "done" /\ cpc = "idle") =>
        /\ CountErr("Erro de leitura") = 1
        /\ serial_port # "open"
        /\ ~is_running

\* C4, as stated: a line that starts with ':ACK' yields exactly one
\* response_received carrying exactly that line and no error_received; a line
\* that starts with ':NACK' yields exactly one error_received carrying
\* exactly that line and no response_received.
C4_ExactLine ==
    [][GotLine =>
          LET d == Utf8Decode(Last(inbound'))
              text == Chomp(d.str)
          IN  d.ok =>
                /\ StartsWith(text, ACK) =>
                      /\ response_received' = Append(response_received, text)
                      /\ error_received' = error_received
                /\ StartsWith(text, NACK) =>
                      /\ error_received' = Append(error_received, ErrMsg("", "", "", text))
                      /\ response_received' = response_received]_vars

\* C4, amended: a decoded line whose text, stripped of leading and trailing
\* whitespace, starts with ':ACK' yields exactly one response_received
\* carrying the stripped text and no error_received; one whose stripped text
\* starts with ':NACK' yields exactly one error_received carrying the
\* stripped text and no response_received.
C4_StrippedLine ==
    [][GotLine =>
          LET d == Utf8Decode(Last(inbound'))
              text == Strip(d.str)
          IN  d.ok =>
                /\ StartsWith(text, ACK) =>
                      /\ response_received' = Append(response_received, text)
                      /\ error_received' = error_received
                /\ StartsWith(text, NACK) =>
                      /\ error_received' = Append(error_received, ErrMsg("", "", "", text))
                      /\ response_received' = response_received]_vars

C4_Witness ==
    /\ inbound = << <<58, 65, 67, 75, 58, 195, 169, 32, 13, 10>>,
                    <<58, 78, 65, 67, 75, 58, 49, 10>> >>
    /\ response_received = << <<58, 65, 67, 75, 58, 233>> >>
    /\ error_received = <<ErrMsg("", "", "", <<58, 78, 65, 67, 75, 58, 49>>)>>

\* C5, as stated: a line that starts with neither ':ACK' nor ':NACK', the
\* empty line of a read timeout included, causes no event, and the loop goes
\* on to its next pass with the session as it was.
C5_NoEventForOtherLines ==
    [][ReadReturned =>
          LET d == Utf8Decode(IF GotLine THEN Last(inbound') ELSE <<>>)
              text == Chomp(d.str)
          IN  (d.ok /\ ~StartsWith(text, ACK) /\ ~StartsWith(text, NACK)) =>
                /\ UNCHANGED <<response_received, error_received, port_closed>>
                /\ UNCHANGED <<serial_port, is_running>>
                /\ pc' = "while"]_vars

\* C5, amended: a decoded line whose text, stripped of leading and trailing
\* whitespace, starts with neither ':ACK' nor ':NACK', the empty line of a
\* read timeout included, causes no event, and the loop goes on to its next
\* pass with the session as it was.
C5_NoEventForOtherStrippedLines ==
    [][ReadReturned =>
          LET d == Utf8Decode(IF GotLine THEN Last(inbound') ELSE <<>>)
              text == Strip(d.str)
          IN  (d.ok /\ ~StartsWith(text, ACK) /\ ~StartsWith(text, NACK)) =>
                /\ UNCHANGED <<response_received, error_received, port_closed>>
                /\ UNCHANGED <<serial_port, is_running>>
                /\ pc' = "while"]_vars

C5_Witness ==
    /\ inbound = << <<58, 65, 67, 10>> >>
    /\ response_received = <<>>
    /\ error_received = <<>>
    /\ pc = "readline"
    /\ SessionOpen

\* C6: the bytes on the wire are the concatenation, in invocation order, of
\* the UTF-8 bytes of ':' + c + '\n' for the commands c whose write was made
\* on the open port and did not fail; nothing else is on the wire.
C6_WireIsFramesInOrder == wire = ExpectedWire(sent)

C6_Witness ==
    /\ Len(sent) = 2
    /\ sent[1] = <<233>>
    /\ sent[2] = <<105, 100, 101, 110, 63>>
    /\ wire = <<58, 195, 169, 10, 58, 105, 100, 101, 110, 63, 10>>

\* C7: when opening the port failed, exactly one connection-failure event
\* carrying the port name was emitted, the port was never opened, the read
\* loop never ran, and no success response is emitted.
C7_ConnectionFailed ==
    OpenFailed =>
        /\ CountErr("Falha ao abrir porta") = 1
        /\ error_received[1].prefix = "Falha ao abrir porta"
        /\ error_received[1].port = port_name
        /\ serial_port = "None"
        /\ ~is_running
        /\ inbound = <<>>
        /\ response_received = <<>>

\* C8: a send_command whose write fails emits one send-failure event and
\* changes nothing else: the port stays open, the running flag and the read
\* loop's position are as before, and no port_closed is emitted.
C8_SendFailureKeepsSession ==
    [][SendFailed =>
          /\ error_received' =
                 Append(error_received,
                        ErrMsg("Erro ao enviar comando", "", "SerialException", <<>>))
          /\ serial_port' = "open"
          /\ UNCHANGED <<is_running, pc, term, port_closed, wire, sent,
                         response_received, inbound>>]_vars

\* a failed send, after which the loop delivered a ':NACK' and a ':ACK' line
C8_Witness ==
    /\ Len(error_received) = 2
    /\ error_received[1].prefix = "Erro ao enviar comando"
    /\ error_received[2].line = <<58, 78, 65, 67, 75, 58, 49>>
    /\ Len(response_received) = 1
    /\ SessionOpen /\ is_running /\ port_closed = 0

\* C9: a send_command invoked while the session is not Open writes nothing
\* to the wire and leaves the session as it was.
C9_SendOnlyWhenOpen ==
    [][(SendStep /\ ~SessionOpen) =>
          UNCHANGED <<wire, serial_port, is_running, pc, term, port_closed,
                      response_received, error_received>>]_vars

\* C10: a disconnect() issued while the port is open leads to the port
\* closed, the read loop terminated and port_closed emitted.
C10_DisconnectLeadsToClosed ==
    (cpc = "disc_close" /\ serial_port = "open") ~>
        (serial_port = "closed" /\ pc = "done" /\ port_closed = 1)

C10_Witness ==
    closed_in_read /\ serial_port = "closed" /\ pc = "done" /\ port_closed = 1
\* C12, as stated: the success and failure events emitted for lines are, in
\* kind and in order, those of the received lines that start with ':ACK' or
\* ':NACK'.
C12_EventsInWireOrder == Kinds(loop_events) = Kinds(LineEvents(inbound, TRUE))

\* C12, amended: the success and failure events emitted for lines are, in
\* kind, text and order, those of the received lines whose decoded text,
\* stripped of leading and trailing whitespace, starts with ':ACK' or ':NACK';
\* each carries the stripped text, response_received holds exactly the
\* successes and error_received exactly the failures among them.
C12_EventsInStrippedWireOrder ==
    /\ loop_events = LineEvents(inbound, FALSE)
    /\ response_received = LinesOf(loop_events, "ack")
    /\ NackLines(error_received) = LinesOf(loop_events, "nack")

C12_Witness ==
    /\ Len(inbound) = 2
    /\ Kinds(loop_events) = <<"nack", "ack">>
    /\ loop_events[2].line # Chomp(Utf8Decode(inbound[2]).str)

C14_NoFaultEscapes ==
    /\ pc # "raised"
    /\ term \in {"open_failed", "read_fault", "escaped"} => error_received # <<>>

\* C16: a disconnect() entered at any moment of the session, also before the
\* worker has opened the port, leads to the port closed, the read loop ended
\* and port_closed emitted (unless the port could not be opened at all, or a
\* read fault ended the session).
C16_DisconnectNotLost ==
    (cpc = "disc_close") ~>
        \/ OpenFailed
        \/ term = "read_fault"
        \/ serial_port = "closed" /\ pc = "done" /\ port_closed = 1

\* C11: at most one worker thread is live at any time, MainWindow holds a
\* communicator exactly when it holds a thread, a worker inside connect() is
\* that one thread, and toggle_connection starts a thread only when no thread
\* is live, communicator and comm_thread are None and no worker is left.
C11_AtMostOneSession ==
    /\ [](/\ live_threads <= 1
          /\ communicator = "set" <=> comm_thread = "running"
          /\ WorkerInConnect => (live_threads = 1 /\ communicator = "set"))
    /\ [][live_threads' > live_threads =>
              /\ live_threads = 0
              /\ communicator = "None"
              /\ comm_thread = "None"
              /\ pc = "idle"]_vars

C11_Witness ==
    /\ live_threads = 1
    /\ communicator = "set"
    /\ pc = "readline"
    /\ port_name = "COM4"
    /\ window = "shown"

\* C15: when serial_ports() returns, its result is the candidates whose probe
\* opened, each once and in candidate order, and no probe handle is open.
C15_ResultIsOpenable ==
    enum_i = Len(Candidates) + 1 =>
        /\ Len(probed) = Len(Candidates)
        /\ result = Openable(Candidates, probed)
        /\ probe = {}

C15_Witness ==
    /\ enum_i = Len(Candidates) + 1
    /\ probed = <<"OSError", "ok">>
    /\ result = <<"COM4">>

\* C17: once the worker's connect() has ended, with every port_closed
\* delivered and no handler under way, MainWindow is in the disconnected
\* state: no communicator, no thread, selector and refresh button enabled.
C17_ReturnsToDisconnected ==
    (window = "shown" /\ pc \in {"done", "raised"} /\ delivered = port_closed
         /\ cpc = "idle") =>
        (communicator = "None" /\ comm_thread = "None" /\ refresh_enabled)

\* C18: whenever port enumeration runs or can be triggered, no
\* SerialCommunicator holds an open port.
C18_NoEnumerationWhileOpen ==
    (window = "shown" /\ (enum_i > 0 \/ refresh_enabled)) => serial_port # "open"

\* C19: once port_closed was emitted, the session emits no response_received
\* and no error_received and writes no byte to the wire.
C19_PortClosedIsFinal ==
    [][(port_closed >= 1 /\ port_closed' >= 1) =>
          UNCHANGED <<response_received, error_received, wire>>]_vars

====
